---- MODULE Spec2Model ----
(***************************************************************************)
(* Verification model of effect-serverless-todo.                          *)
(*                                                                         *)
(*  - TodoRepositoryLive (apps/backend/services/TodoRepository.ts): the    *)
(*    in-memory repository, a Ref holding a Map and a counter, used by     *)
(*    fibers whose Ref.get and Ref.update are separate atomic steps.       *)
(*  - RouterLive (router, parseBody, handleErrors) over that repository.   *)
(*  - The plain in-memory Lambda handler (apps/backend/src/index.ts).      *)
(*  - The Effect Lambda handler, which runs RouterLive on a repository    *)
(*    provided to each invocation.                                         *)
(*  - The DynamoDB Lambda handler and the table it sends commands to.      *)
(*  - The Todo schema of packages/shared, decoding unknown values.         *)
(*                                                                         *)
(* A JS Map is modelled as the sequence of its entries in insertion order, *)
(* a string of characters that matter (titles) as a tuple of characters,   *)
(* JS undefined as the record Undefined.                                   *)
(***************************************************************************)
EXTENDS Integers, Sequences, FiniteSets, TLC

VARIABLES
    todosRef,    \* TodoRepositoryLive: the Map held by todosRef
    idCounter,   \* TodoRepositoryLive: let idCounter
    fiber,       \* per fiber: the repository operation it runs and where it is
    base,        \* history: Map and counter when the running operations were forked
    issued,      \* history: the ids create has handed out, in order
    live,        \* history: id -> entity, created and not since deleted, merged
    deleted,     \* history: the ids deleted and not created again since
    request,     \* RouterLive: the ServerRequest last routed
    response,    \* RouterLive: what the router made of it
    invoked,     \* history: the repository operations that request invoked
    effect,      \* history: the outcome of the route's effect before handleErrors
    todos,       \* Lambda handler: const todos, the module's Map
    event,       \* Lambda handler: the event last handled
    handled,     \* Lambda handler: what the handler returned for it
    table,       \* DynamoDB: the items of TABLE_NAME, by key
    replied,     \* DynamoDB handler: what the handler returned for the event
    sent,        \* history: the commands that invocation sent, and how each ended
    raw,         \* schemas: the unknown value last given to S.decodeUnknown(Todo)
    validated    \* schemas: what decoding it gave

\* what the repository's operations leave alone
routerVars == <<request, response, invoked, effect>>

handlerVars == <<todos, event, handled>>

dynamoVars == <<table, replied, sent>>

schemaVars == <<raw, validated>>

vars == <<todosRef, idCounter, fiber, base, issued, live, deleted,
          request, response, invoked, effect, todos, event, handled,
          table, replied, sent, raw, validated>>

-----------------------------------------------------------------------------
(* Bounds *)

MaxCreates == 2    \* create calls per repository instance
MaxTime == 2       \* distinct readings of the clock

\* The two effects of Effect.all([a, b], { concurrency: 2 }) on one instance.
Fibers == {"fiberA", "fiberB"}

Times == 1..MaxTime

-----------------------------------------------------------------------------
(* Values *)

Undefined == [t |-> "undefined"]

\* `todo-${n}`
TodoId(n) == "todo-" \o ToString(n)

\* new Date(t).toISOString(), one string per clock reading
toISOString(t) == "T-" \o ToString(t)

RepoTitles == {<<"a">>, <<"b", "c">>}

LookupIds == {TodoId(n) : n \in 1..MaxCreates} \cup {"non-existent"}

NoInput == [f \in {} |-> TRUE]

\* values of type UpdateTodoInput: title and completed, each optional
UpdateInputs ==
    {NoInput}
    \cup {[title |-> t] : t \in RepoTitles}
    \cup {[completed |-> c] : c \in BOOLEAN}
    \cup {[title |-> t, completed |-> c] : t \in RepoTitles, c \in BOOLEAN}

\* values of type CreateTodoInput: title, and completed optional
CreateInputs == {c \in UpdateInputs : "title" \in DOMAIN c}

-----------------------------------------------------------------------------
(* JS Map, as the sequence of its entries in insertion order *)

MapKeys(map) == {map[i].key : i \in DOMAIN map}

MapHas(map, k) == k \in MapKeys(map)

MapGet(map, k) ==
    IF MapHas(map, k)
    THEN (CHOOSE e \in {map[i] : i \in DOMAIN map} : e.key = k).value
    ELSE Undefined

\* Variant: the copy is returned without the entry (set on a discarded Map).
MapSetDiscarded(map, k, v) == map

\* Variant: the entry is pushed as onto an array, an existing key kept as well.
MapSetPushed(map, k, v) == Append(map, [key |-> k, value |-> v])

\* new Map(map).set(k, v): an existing key keeps its place
MapSet(map, k, v) ==
    IF MapHas(map, k)
    THEN [i \in DOMAIN map |-> IF map[i].key = k THEN [key |-> k, value |-> v] ELSE map[i]]
    ELSE Append(map, [key |-> k, value |-> v])

\* Variant: the entry is deleted from a copy that is then dropped.
MapDeleteDiscarded(map, k) == map

\* newMap.delete(k)
MapDelete(map, k) == SelectSeq(map, LAMBDA e : e.key # k)

\* Array.from(map.values())
MapValues(map) == [i \in DOMAIN map |-> map[i].value]

MapSize(map) == Len(map)

\* { ...a, ...b }
Spread(a, b) == [f \in DOMAIN a \cup DOMAIN b |-> IF f \in DOMAIN b THEN b[f] ELSE a[f]]

\* x ?? d on an optional field
FieldOr(o, f, d) == IF f \in DOMAIN o THEN o[f] ELSE d

-----------------------------------------------------------------------------
(* Results of repository effects *)

Succeed(v) == [tag |-> "success", value |-> v]

Fail(e) == [tag |-> "failure", error |-> e]

TodoNotFoundError(id) == [_tag |-> "TodoNotFoundError", id |-> id]

Void == [t |-> "void"]

-----------------------------------------------------------------------------
(* TodoRepositoryLive: what each operation computes from the Map it reads *)

\* getAll: Ref.get then Array.from(map.values())
getAll(map) == Succeed(MapValues(map))

\* getById: Ref.get then map.get(id), failing when there is none
getById(map, id) ==
    LET todo == MapGet(map, id)
    IN  IF todo # Undefined THEN Succeed(todo) ELSE Fail(TodoNotFoundError(id))

\* Variant: idCounter read but not advanced.
PostIncrementForgotten(counter) == counter

\* create: idCounter++
PostIncrement(counter) == counter + 1

\* create: the entity built from the input, the counter and the clock
NewTodo(counter, input, now) ==
    [id |-> TodoId(counter),
     title |-> input.title,
     completed |-> FieldOr(input, "completed", FALSE),
     createdAt |-> toISOString(now)]

\* Variant: replacement instead of merge, an absent field falling back to its default.
UpdatedReplacing(existing, updates) ==
    [id |-> existing.id,
     title |-> FieldOr(updates, "title", existing.title),
     completed |-> FieldOr(updates, "completed", FALSE),
     createdAt |-> existing.createdAt]

\* Variant: the updates spread over the existing entity's id alone, createdAt
\* taken anew.
UpdatedRestamped(existing, updates) ==
    Spread([existing EXCEPT !.createdAt = "T-0"], updates)

\* update: const updated = { ...existing, ...updates }
Updated(existing, updates) == Spread(existing, updates)

\* update: Ref.get, then fail when map.get(id) is undefined
UpdateCheck(map, id) ==
    IF MapGet(map, id) = Undefined THEN Fail(TodoNotFoundError(id)) ELSE Succeed(MapGet(map, id))

\* Variant: no existence check, Map.delete of an absent key being harmless.
DeleteCheckSkipped(map, id) == Succeed(Void)

\* delete: Ref.get, then fail when !map.has(id)
DeleteCheck(map, id) ==
    IF ~MapHas(map, id) THEN Fail(TodoNotFoundError(id)) ELSE Succeed(Void)

\* One operation run from start to end with nothing in between, on a Map and
\* a counter: f gives op, id, input and, for create, the entity built.
Alone(state, f) ==
    CASE f.op = "getAll" -> [state |-> state, result |-> getAll(state.map)]
      [] f.op = "getById" -> [state |-> state, result |-> getById(state.map, f.id)]
      [] f.op = "create" ->
            LET todo == [f.todo EXCEPT !.id = TodoId(state.counter)]
            IN  [state |-> [map |-> MapSet(state.map, todo.id, todo),
                            counter |-> PostIncrement(state.counter)],
                 result |-> Succeed(todo)]
      [] f.op = "update" ->
            LET existing == UpdateCheck(state.map, f.id)
                updated == Updated(existing.value, f.input)
            IN  IF existing.tag = "failure"
                THEN [state |-> state, result |-> existing]
                ELSE [state |-> [state EXCEPT !.map = MapSet(state.map, f.id, updated)],
                      result |-> Succeed(updated)]
      [] f.op = "delete" ->
            LET check == DeleteCheck(state.map, f.id)
            IN  IF check.tag = "failure"
                THEN [state |-> state, result |-> check]
                ELSE [state |-> [state EXCEPT !.map = MapDelete(state.map, f.id)],
                      result |-> check]

-----------------------------------------------------------------------------
(* Fibers *)

NoRequest == [t |-> "none"]

NoResponse == [t |-> "none"]

Idle == [pc |-> "idle", op |-> "none", id |-> "", input |-> NoInput,
         todo |-> Undefined, result |-> Undefined]

NoBase == [t |-> "none"]

Quiet == \A q \in Fibers : fiber[q].pc = "idle"

\* history: the Map and counter the running operations started from
Forked == IF Quiet THEN [map |-> todosRef, counter |-> idCounter] ELSE base

Done(p, op, id, input, todo, result) ==
    fiber' = [fiber EXCEPT ![p] = [pc |-> "done", op |-> op, id |-> id, input |-> input,
                                   todo |-> todo, result |-> result]]

Pending(p, op, id, input, todo) ==
    fiber' = [fiber EXCEPT ![p] = [pc |-> "write", op |-> op, id |-> id, input |-> input,
                                   todo |-> todo, result |-> Undefined]]

LivePut(id, todo) == [k \in DOMAIN live \cup {id} |-> IF k = id THEN todo ELSE live[k]]

LiveRemove(id) == [k \in DOMAIN live \ {id} |-> live[k]]

-----------------------------------------------------------------------------
(* TodoRepositoryLive: the operations, one action per atomic step *)

GetAll(p) ==
    /\ fiber[p].pc = "idle"
    /\ Done(p, "getAll", "", NoInput, Undefined, getAll(todosRef))
    /\ base' = Forked
    /\ UNCHANGED <<todosRef, idCounter, issued, live, deleted, routerVars, handlerVars, dynamoVars,
                   schemaVars>>

GetById(p, id) ==
    /\ fiber[p].pc = "idle"
    /\ Done(p, "getById", id, NoInput, Undefined, getById(todosRef, id))
    /\ base' = Forked
    /\ UNCHANGED <<todosRef, idCounter, issued, live, deleted, routerVars, handlerVars, dynamoVars,
                   schemaVars>>

\* create, up to its first yield: const id = `todo-${idCounter++}`, now, todo
Create(p, input) ==
    /\ fiber[p].pc = "idle"
    /\ idCounter <= MaxCreates
    /\ \E now \in Times :
           Pending(p, "create", TodoId(idCounter), input, NewTodo(idCounter, input, now))
    /\ idCounter' = PostIncrement(idCounter)
    /\ issued' = Append(issued, TodoId(idCounter))
    /\ base' = Forked
    /\ UNCHANGED <<todosRef, live, deleted, routerVars, handlerVars, dynamoVars, schemaVars>>

\* create: Ref.update(todosRef, (map) => new Map(map).set(id, todo)), return todo
CreateRefUpdate(p) ==
    /\ fiber[p].pc = "write" /\ fiber[p].op = "create"
    /\ todosRef' = MapSet(todosRef, fiber[p].id, fiber[p].todo)
    /\ Done(p, "create", fiber[p].id, fiber[p].input, fiber[p].todo, Succeed(fiber[p].todo))
    /\ live' = LivePut(fiber[p].id, fiber[p].todo)
    /\ deleted' = deleted \ {fiber[p].id}
    /\ UNCHANGED <<idCounter, base, issued, routerVars, handlerVars, dynamoVars, schemaVars>>

\* update: Ref.get and the flatMap callback up to the Ref.update it returns
Update(p, id, updates) ==
    /\ fiber[p].pc = "idle"
    /\ LET existing == UpdateCheck(todosRef, id)
       IN  IF existing.tag = "failure"
           THEN Done(p, "update", id, updates, Undefined, existing)
           ELSE Pending(p, "update", id, updates, Updated(existing.value, updates))
    /\ base' = Forked
    /\ UNCHANGED <<todosRef, idCounter, issued, live, deleted, routerVars, handlerVars, dynamoVars,
                   schemaVars>>

\* update: Ref.update(todosRef, (map) => new Map(map).set(id, updated)), as updated
UpdateRefUpdate(p) ==
    /\ fiber[p].pc = "write" /\ fiber[p].op = "update"
    /\ todosRef' = MapSet(todosRef, fiber[p].id, fiber[p].todo)
    /\ Done(p, "update", fiber[p].id, fiber[p].input, fiber[p].todo, Succeed(fiber[p].todo))
    /\ live' = IF fiber[p].id \in DOMAIN live
               THEN LivePut(fiber[p].id, Spread(live[fiber[p].id], fiber[p].input))
               ELSE live
    /\ UNCHANGED <<idCounter, base, issued, deleted, routerVars, handlerVars, dynamoVars, schemaVars>>

\* delete: Ref.get and the flatMap callback up to the Ref.update it returns
Delete(p, id) ==
    /\ fiber[p].pc = "idle"
    /\ LET check == DeleteCheck(todosRef, id)
       IN  IF check.tag = "failure"
           THEN Done(p, "delete", id, NoInput, Undefined, check)
           ELSE Pending(p, "delete", id, NoInput, Undefined)
    /\ base' = Forked
    /\ UNCHANGED <<todosRef, idCounter, issued, live, deleted, routerVars, handlerVars, dynamoVars,
                   schemaVars>>

\* delete: Ref.update(todosRef, (map) => { newMap.delete(id) })
DeleteRefUpdate(p) ==
    /\ fiber[p].pc = "write" /\ fiber[p].op = "delete"
    /\ todosRef' = MapDelete(todosRef, fiber[p].id)
    /\ Done(p, "delete", fiber[p].id, NoInput, Undefined, Succeed(Void))
    /\ live' = LiveRemove(fiber[p].id)
    /\ deleted' = deleted \cup {fiber[p].id}
    /\ UNCHANGED <<idCounter, base, issued, routerVars, handlerVars, dynamoVars, schemaVars>>

\* the caller collects the results of the finished effects
Join ==
    /\ \A q \in Fibers : fiber[q].pc \in {"idle", "done"}
    /\ \E q \in Fibers : fiber[q].pc = "done"
    /\ fiber' = [q \in Fibers |-> Idle]
    /\ base' = NoBase
    /\ UNCHANGED <<todosRef, idCounter, issued, live, deleted, routerVars, handlerVars, dynamoVars,
                   schemaVars>>

\* Layer.effect(TodoRepository, ...): Ref.make(new Map()), let idCounter = 1
Init ==
    /\ todosRef = <<>>
    /\ idCounter = 1
    /\ fiber = [q \in Fibers |-> Idle]
    /\ base = NoBase
    /\ issued = <<>>
    /\ live = [k \in {} |-> Undefined]
    /\ deleted = {}
    /\ request = NoRequest
    /\ response = NoResponse
    /\ invoked = <<>>
    /\ effect = NoResponse
    /\ todos = <<>>
    /\ event = NoRequest
    /\ handled = NoResponse
    /\ table = [k \in {} |-> Undefined]
    /\ replied = NoResponse
    /\ sent = <<>>
    /\ raw = Undefined
    /\ validated = NoResponse

RefUpdate(p) == CreateRefUpdate(p) \/ UpdateRefUpdate(p) \/ DeleteRefUpdate(p)

Call(p, ids, creates, updates) ==
    \/ GetAll(p)
    \/ \E id \in ids : GetById(p, id)
    \/ \E input \in creates : Create(p, input)
    \/ \E id \in ids, u \in updates : Update(p, id, u)
    \/ \E id \in ids : Delete(p, id)

\* the calls two concurrent effects contend with: one id, one field each
ContendedIds == {TodoId(1), "non-existent"}

ContendedCreates == {[title |-> <<"a">>]}

ContendedUpdates == {[title |-> <<"b", "c">>], [completed |-> TRUE]}

\* Operations run concurrently on one instance.
Next ==
    \/ \E p \in Fibers : Call(p, ContendedIds, ContendedCreates, ContendedUpdates)
    \/ \E p \in Fibers : RefUpdate(p)
    \/ Join

Spec == Init /\ [][Next]_vars

\* Operations called one after another on one instance, each run to completion.
SeqNext ==
    \/ Quiet /\ Call("fiberA", LookupIds, CreateInputs, UpdateInputs)
    \/ RefUpdate("fiberA")
    \/ Join

SeqSpec == Init /\ [][SeqNext]_vars

-----------------------------------------------------------------------------
(* JSON values and request bodies *)

JStr(s) == [t |-> "string", s |-> s]

JBool(b) == [t |-> "boolean", b |-> b]

JNum(n) == [t |-> "number", n |-> n]

JNull == [t |-> "null"]

\* a JSON object: o maps the names of its properties to JSON values
JObj(o) == [t |-> "object", o |-> o]

\* A body is absent, or a text that is a JSON document or is not.
NoBody == [t |-> "absent"]

BadJson == [t |-> "text", syntax |-> "invalid"]

JsonText(v) == [t |-> "text", syntax |-> "json", value |-> v]

MaxTitleLength == 200

Chars(n) == [i \in 1..n |-> "x"]

RequestTitles ==
    {<<>>, <<"a", " ">>, Chars(MaxTitleLength), Chars(MaxTitleLength + 1)}

TitleValues(titles) == {JStr(s) : s \in titles} \cup {JNum(7)}

CompletedValues == {JBool(TRUE), JStr(<<"y">>)}

\* request bodies: objects with or without title and completed, of the right
\* type or not, null, no JSON at all, no body
BodiesOf(titles) ==
    {JsonText(JObj(NoInput))}
    \cup {JsonText(JObj([title |-> v])) : v \in TitleValues(titles)}
    \cup {JsonText(JObj([completed |-> c])) : c \in CompletedValues}
    \cup {JsonText(JObj([title |-> v, completed |-> c])) :
              v \in TitleValues(titles), c \in CompletedValues}
    \cup {JsonText(JNull), BadJson, NoBody}

Request(method, path, body) == [method |-> method, path |-> path, body |-> body]

\* the requests sent: every route, routes that do not exist, every body
RequestsOf(ids, bodies) ==
    {Request("GET", path, NoBody) :
        path \in {<<"health">>, <<"todos">>, <<"unknown">>} \cup {<<"todos", id>> : id \in ids}}
    \cup {Request("DELETE", path, NoBody) :
        path \in {<<"todos">>} \cup {<<"todos", id>> : id \in ids}}
    \cup {Request("OPTIONS", path, NoBody) :
        path \in {<<"todos">>, <<"anything">>} \cup {<<"todos", id>> : id \in ids}}
    \cup {Request("PUT", <<"todos">>, NoBody)}
    \cup {Request("POST", <<"todos">>, body) : body \in bodies}
    \cup {Request("PATCH", <<"todos", id>>, body) : id \in ids, body \in bodies}

-----------------------------------------------------------------------------
(* Schemas (packages/shared/src/schemas/Todo.ts) *)

ParseError(at) == [_tag |-> "ParseError", at |-> at]

\* Variant: the upper bound of the title left out.
TitleValidUnbounded(s) == Len(s) >= 1

\* S.String.pipe(S.minLength(1), S.maxLength(200))
TitleValid(s) == Len(s) >= 1 /\ Len(s) <= MaxTitleLength

\* the title property of a struct: a string within the bounds
TitleIssue(o) ==
    IF o.title.t # "string" THEN TRUE ELSE ~TitleValid(o.title.s)

\* Variant: completed left out of the result when the input has none, the
\* repository then taking it as given true.
DecodeCreateTodoInputDefaultTrue(v) ==
    IF v.t # "object" THEN Fail(ParseError("input"))
    ELSE IF "title" \notin DOMAIN v.o THEN Fail(ParseError("title"))
    ELSE IF TitleIssue(v.o) THEN Fail(ParseError("title"))
    ELSE IF "completed" \in DOMAIN v.o /\ v.o.completed.t # "boolean"
         THEN Fail(ParseError("completed"))
    ELSE Succeed([title |-> v.o.title.s,
                  completed |-> IF "completed" \in DOMAIN v.o THEN v.o.completed.b ELSE TRUE])

\* S.decodeUnknown(CreateTodoInput): title required, completed optional with
\* decoding default false, other properties dropped
DecodeCreateTodoInput(v) ==
    IF v.t # "object" THEN Fail(ParseError("input"))
    ELSE IF "title" \notin DOMAIN v.o THEN Fail(ParseError("title"))
    ELSE IF TitleIssue(v.o) THEN Fail(ParseError("title"))
    ELSE IF "completed" \in DOMAIN v.o /\ v.o.completed.t # "boolean"
         THEN Fail(ParseError("completed"))
    ELSE Succeed([title |-> v.o.title.s,
                  completed |-> IF "completed" \in DOMAIN v.o THEN v.o.completed.b ELSE FALSE])

\* S.decodeUnknown(UpdateTodoInput): S.partial, each property optional
DecodeUpdateTodoInput(v) ==
    IF v.t # "object" THEN Fail(ParseError("input"))
    ELSE IF "title" \in DOMAIN v.o /\ TitleIssue(v.o) THEN Fail(ParseError("title"))
    ELSE IF "completed" \in DOMAIN v.o /\ v.o.completed.t # "boolean"
         THEN Fail(ParseError("completed"))
    ELSE Succeed([f \in DOMAIN v.o \cap {"title", "completed"} |->
                     IF f = "title" THEN v.o.title.s ELSE v.o.completed.b])

\* S.decodeUnknown(Todo): every property required and of its type, id of one
\* character or more, title within its bounds; properties the struct does
\* not declare are dropped from the result
DecodeTodo(v) ==
    IF v.t # "object" THEN Fail(ParseError("input"))
    ELSE IF "id" \notin DOMAIN v.o THEN Fail(ParseError("id"))
    ELSE IF v.o.id.t # "string" THEN Fail(ParseError("id"))
    ELSE IF Len(v.o.id.s) < 1 THEN Fail(ParseError("id"))
    ELSE IF "title" \notin DOMAIN v.o THEN Fail(ParseError("title"))
    ELSE IF TitleIssue(v.o) THEN Fail(ParseError("title"))
    ELSE IF "completed" \notin DOMAIN v.o THEN Fail(ParseError("completed"))
    ELSE IF v.o.completed.t # "boolean" THEN Fail(ParseError("completed"))
    ELSE IF "createdAt" \notin DOMAIN v.o THEN Fail(ParseError("createdAt"))
    ELSE IF v.o.createdAt.t # "string" THEN Fail(ParseError("createdAt"))
    ELSE Succeed([id |-> v.o.id.s, title |-> v.o.title.s,
                  completed |-> v.o.completed.b, createdAt |-> v.o.createdAt.s])

\* an object of the properties given, those left undefined absent
ObjectOf(properties) ==
    JObj([f \in {g \in DOMAIN properties : properties[g] # Undefined} |-> properties[f]])

\* the unknown values decoded: objects with each property of Todo absent,
\* of its type within and outside its bounds, or of another type, with and
\* without a property Todo does not declare; and values that are no object
RawTodos ==
    {ObjectOf([id |-> i, title |-> t, completed |-> c, createdAt |-> d, priority |-> x]) :
        i \in {Undefined, JStr(<<>>), JStr(<<"t", "1">>), JNum(7)},
        t \in {Undefined, JNum(7)} \cup {JStr(r) : r \in RequestTitles},
        c \in {Undefined, JBool(TRUE), JBool(FALSE), JStr(<<"y">>)},
        d \in {Undefined, JStr(<<"T", "1">>), JNum(7)},
        x \in {Undefined, JNum(1)}}
    \cup {JNull, JStr(<<"a">>)}

\* S.decodeUnknown(Todo)(v) run on one value
DecodeUnknownTodo(v) ==
    /\ raw = Undefined
    /\ raw' = v
    /\ validated' = DecodeTodo(v)
    /\ UNCHANGED <<todosRef, idCounter, fiber, base, issued, live, deleted, routerVars,
                   handlerVars, dynamoVars>>

\* The result has been looked at; the next value can be decoded.
DecodeDone ==
    /\ raw # Undefined
    /\ raw' = Undefined
    /\ validated' = NoResponse
    /\ UNCHANGED <<todosRef, idCounter, fiber, base, issued, live, deleted, routerVars,
                   handlerVars, dynamoVars>>

SchemaNext ==
    \/ \E v \in RawTodos : DecodeUnknownTodo(v)
    \/ DecodeDone

SchemaSpec == Init /\ [][SchemaNext]_vars

-----------------------------------------------------------------------------
(* RouterLive (router: parseBody, jsonResponse, handleErrors, the routes) *)

ValidationError(message, issues) ==
    [_tag |-> "ValidationError", message |-> message, issues |-> issues]

RequestError == [_tag |-> "RequestError"]

RouteNotFound == [_tag |-> "RouteNotFound"]

\* request.json: the body read as text and parsed
RequestJson(body) ==
    IF body.t = "text" /\ body.syntax = "json" THEN Succeed(body.value) ELSE Fail(RequestError)

\* S.decodeUnknown(schema)(v), the schema given by its name
decodeUnknown(schema, v) ==
    IF schema = "CreateTodoInput" THEN DecodeCreateTodoInput(v) ELSE DecodeUpdateTodoInput(v)

\* parseBody(schema)(request)
parseBody(schema, req) ==
    LET body == RequestJson(req.body)
    IN  IF body.tag = "failure" THEN body
        ELSE LET decoded == decodeUnknown(schema, body.value)
             IN  IF decoded.tag = "failure"
                 THEN Fail(ValidationError("Invalid request body", decoded.error))
                 ELSE decoded

JsonHeaders == [ContentType |-> "application/json"]

NoHeaders == [h \in {} |-> ""]

CorsHeaders ==
    [AccessControlAllowOrigin |-> "*",
     AccessControlAllowMethods |-> "GET,POST,PATCH,DELETE,OPTIONS",
     AccessControlAllowHeaders |-> "Content-Type"]

\* jsonResponse(data, status): Http.response.json with Content-Type
jsonResponse(data, status) ==
    [status |-> status, headers |-> JsonHeaders, body |-> [t |-> "json", data |-> data]]

\* Http.response.empty({ status, headers })
emptyResponse(status, headers) ==
    [status |-> status, headers |-> headers, body |-> [t |-> "empty"]]

\* Variant: catchTags alone, no catchAll for the failures left.
handleErrorsTagsOnly(outcome) ==
    IF outcome.tag = "success" THEN outcome
    ELSE IF outcome.error._tag = "TodoNotFoundError"
         THEN Succeed(jsonResponse(
                  [error |-> "Todo with id " \o outcome.error.id \o " not found"], 404))
    ELSE IF outcome.error._tag = "ValidationError"
         THEN Succeed(jsonResponse(
                  [error |-> outcome.error.message, details |-> outcome.error.issues], 400))
    ELSE outcome

\* handleErrors: catchTags for the two tagged errors, catchAll for the rest
handleErrors(outcome) ==
    IF outcome.tag = "success" THEN outcome
    ELSE IF outcome.error._tag = "TodoNotFoundError"
         THEN Succeed(jsonResponse(
                  [error |-> "Todo with id " \o outcome.error.id \o " not found"], 404))
    ELSE IF outcome.error._tag = "ValidationError"
         THEN Succeed(jsonResponse(
                  [error |-> outcome.error.message, details |-> outcome.error.issues], 400))
    ELSE Succeed(jsonResponse(
             [error |-> "Internal server error", details |-> outcome.error._tag], 500))

\* the route pattern "/todos/:id"
IsTodoPath(path) == Len(path) = 2 /\ path[1] = "todos" /\ path[2] # ""

RepoCall(op, id, input, todo) == [op |-> op, id |-> id, input |-> input, todo |-> todo]

\* A route's outcome: the repository afterwards, the response or failure, and
\* the repository operations it invoked.
Routed(state, outcome, calls) ==
    [state |-> state, outcome |-> outcome, calls |-> calls, effect |-> outcome]

\* effect.pipe(handleErrors) of a route
Piped(routed) == [routed EXCEPT !.outcome = handleErrors(routed.effect)]

\* GET /todos
RouteList(state) ==
    LET run == Alone(state, RepoCall("getAll", "", NoInput, Undefined))
    IN  Routed(run.state, Succeed(jsonResponse(run.result.value, 200)), <<"getAll">>)

\* POST /todos
RouteCreate(state, req, now) ==
    LET input == parseBody("CreateTodoInput", req)
    IN  IF input.tag = "failure"
        THEN Routed(state, input, <<>>)
        ELSE LET run == Alone(state, RepoCall("create", "", input.value,
                                              NewTodo(state.counter, input.value, now)))
             IN  Routed(run.state, Succeed(jsonResponse(run.result.value, 201)), <<"create">>)

\* GET /todos/:id
RouteGet(state, id) ==
    LET run == Alone(state, RepoCall("getById", id, NoInput, Undefined))
    IN  Routed(run.state,
               IF run.result.tag = "failure" THEN run.result
               ELSE Succeed(jsonResponse(run.result.value, 200)),
               <<"getById">>)

\* PATCH /todos/:id
RouteUpdate(state, req, id) ==
    LET updates == parseBody("UpdateTodoInput", req)
    IN  IF updates.tag = "failure"
        THEN Routed(state, updates, <<>>)
        ELSE LET run == Alone(state, RepoCall("update", id, updates.value, Undefined))
             IN  Routed(run.state,
                        IF run.result.tag = "failure" THEN run.result
                        ELSE Succeed(jsonResponse(run.result.value, 200)),
                        <<"update">>)

\* DELETE /todos/:id
RouteDelete(state, id) ==
    LET run == Alone(state, RepoCall("delete", id, NoInput, Undefined))
    IN  Routed(run.state,
               IF run.result.tag = "failure" THEN run.result
               ELSE Succeed(emptyResponse(204, NoHeaders)),
               <<"delete">>)

\* The router: the first route whose method and path match, or RouteNotFound.
RouterLive(state, req, now) ==
    CASE req.method = "GET" /\ req.path = <<"health">> ->
            Routed(state, Succeed(jsonResponse(
                [status |-> "ok", timestamp |-> toISOString(now), service |-> "todo-api"], 200)),
                <<>>)
      [] req.method = "GET" /\ req.path = <<"todos">> -> Piped(RouteList(state))
      [] req.method = "POST" /\ req.path = <<"todos">> -> Piped(RouteCreate(state, req, now))
      [] req.method = "GET" /\ IsTodoPath(req.path) -> Piped(RouteGet(state, req.path[2]))
      [] req.method = "PATCH" /\ IsTodoPath(req.path) ->
            Piped(RouteUpdate(state, req, req.path[2]))
      [] req.method = "DELETE" /\ IsTodoPath(req.path) -> Piped(RouteDelete(state, req.path[2]))
      [] req.method = "OPTIONS" -> Routed(state, Succeed(emptyResponse(204, CorsHeaders)), <<>>)
      [] OTHER -> [Routed(state, Fail(RouteNotFound), <<>>) EXCEPT !.effect = NoResponse]

RoutedIds == {TodoId(1), "non-existent"}

Requests == RequestsOf(RoutedIds, BodiesOf(RequestTitles))

\* One request routed on the repository instance the router was provided with.
Route(req) ==
    /\ Quiet
    /\ request = NoRequest
    /\ \E now \in Times :
          LET routed == RouterLive([map |-> todosRef, counter |-> idCounter], req, now)
          IN  /\ routed.state.counter <= MaxCreates + 1
              /\ todosRef' = routed.state.map
              /\ idCounter' = routed.state.counter
              /\ request' = req
              /\ invoked' = routed.calls
              /\ effect' = routed.effect
              /\ response' = routed.outcome
    /\ base' = [map |-> todosRef, counter |-> idCounter]
    /\ UNCHANGED <<fiber, issued, live, deleted, handlerVars, dynamoVars, schemaVars>>

\* The response has gone out; the router waits for the next request.
Respond ==
    /\ request # NoRequest
    /\ request' = NoRequest
    /\ response' = NoResponse
    /\ invoked' = <<>>
    /\ effect' = NoResponse
    /\ base' = NoBase
    /\ UNCHANGED <<todosRef, idCounter, fiber, issued, live, deleted, handlerVars, dynamoVars,
                   schemaVars>>

RouterNext ==
    \/ \E req \in Requests : Route(req)
    \/ Respond

RouterSpec == Init /\ [][RouterNext]_vars

-----------------------------------------------------------------------------
(* The Effect Lambda handler: API Gateway events to RouterLive and back *)

\* a defect: an exception thrown inside Effect.gen, which catchAll lets through
Die(defect) == [tag |-> "die", defect |-> defect]

\* the events invoked with: the router's requests, and GET and HEAD carrying a body
LambdaEvents ==
    Requests
    \cup {Request(method, <<"todos">>, JsonText(JObj([title |-> JStr(<<"a">>)]))) :
             method \in {"GET", "HEAD"}}

\* new Request(url, {method, headers, body}): the constructor throws a
\* TypeError for a GET or HEAD request given a body
WebRequest(e) ==
    IF e.method \in {"GET", "HEAD"} /\ e.body.t # "absent"
    THEN Die("TypeError") ELSE Succeed(e)

\* Effect.provide(TodoRepositoryLive): the layer is built for the program run,
\* Ref.make(new Map()) and idCounter = 1
ProvidedRepository == [map |-> <<>>, counter |-> 1]

\* the Lambda result of a router response, the CORS headers spread over its own
LambdaResult(res) ==
    [statusCode |-> res.status, headers |-> Spread(res.headers, CorsHeaders), body |-> res.body]

\* the global Effect.catchAll: 500 with Content-Type alone
GlobalCatchAll(error) ==
    [statusCode |-> 500,
     headers |-> JsonHeaders,
     body |-> [t |-> "json",
               data |-> [error |-> "Internal Server Error", message |-> error._tag]]]

\* program: what NodeRuntime.runPromise(program) settles with, and the router's run
Program(e, now) ==
    LET web == WebRequest(e)
        routed == RouterLive(ProvidedRepository, e, now)
    IN  IF web.tag = "die"
        THEN [settled |-> web, routed |-> Routed(ProvidedRepository, NoResponse, <<>>)]
        ELSE [settled |-> IF routed.outcome.tag = "failure"
                          THEN Succeed(GlobalCatchAll(routed.outcome.error))
                          ELSE Succeed(LambdaResult(routed.outcome.value)),
              routed |-> routed]

\* history: what the responses so far say is stored
LiveAfter(e, settled) ==
    IF settled.tag # "success" THEN live
    ELSE IF e.method = "POST" /\ settled.value.statusCode = 201
         THEN LivePut(settled.value.body.data.id, settled.value.body.data)
    ELSE IF e.method = "PATCH" /\ settled.value.statusCode = 200
         THEN LivePut(settled.value.body.data.id, settled.value.body.data)
    ELSE IF e.method = "DELETE" /\ settled.value.statusCode = 204
         THEN LiveRemove(e.path[2])
    ELSE live

\* One invocation of the Effect handler in the running process.
LambdaInvoke(e) ==
    /\ event = NoRequest
    /\ \E now \in Times :
          LET run == Program(e, now)
          IN  /\ handled' = run.settled
              /\ todosRef' = run.routed.state.map
              /\ idCounter' = run.routed.state.counter
              /\ response' = run.routed.outcome
              /\ invoked' = run.routed.calls
              /\ effect' = run.routed.effect
              /\ live' = LiveAfter(e, run.settled)
    /\ event' = e
    /\ request' = e
    /\ base' = ProvidedRepository
    /\ UNCHANGED <<fiber, issued, deleted, todos, dynamoVars, schemaVars>>

\* The promise has settled; the process waits for the next event.
LambdaSettled ==
    /\ event # NoRequest
    /\ event' = NoRequest
    /\ handled' = NoResponse
    /\ request' = NoRequest
    /\ response' = NoResponse
    /\ invoked' = <<>>
    /\ effect' = NoResponse
    /\ base' = NoBase
    /\ UNCHANGED <<todosRef, idCounter, fiber, issued, live, deleted, todos, dynamoVars, schemaVars>>

LambdaNext ==
    \/ \E e \in LambdaEvents : LambdaInvoke(e)
    \/ LambdaSettled

LambdaSpec == Init /\ [][LambdaNext]_vars

-----------------------------------------------------------------------------
(* The plain in-memory Lambda handler (apps/backend/src/index.ts) *)

\* Math.random().toString(36).substring(2, 15): up to 13 characters of base
\* 36, none when Math.random() returns 0
GeneratedIds == {"", "k7f"}

HandlerIds == {"k7f", "zzz"}

HandlerTitles == RequestTitles \cup {<<" ">>}

Events == RequestsOf(HandlerIds, BodiesOf(HandlerTitles))

IsSpace(c) == c = " "

RECURSIVE TrimStart(_)
TrimStart(s) == IF s # <<>> /\ IsSpace(Head(s)) THEN TrimStart(Tail(s)) ELSE s

RECURSIVE TrimEnd(_)
TrimEnd(s) ==
    IF s # <<>> /\ IsSpace(s[Len(s)]) THEN TrimEnd(SubSeq(s, 1, Len(s) - 1)) ELSE s

\* String.prototype.trim
Trim(s) == TrimEnd(TrimStart(s))

\* body.name on a parsed object: the property, or undefined
Prop(body, name) == IF name \in DOMAIN body.o THEN body.o[name] ELSE Undefined

\* !v
Falsy(v) ==
    CASE v.t = "undefined" -> TRUE
      [] v.t = "null" -> TRUE
      [] v.t = "string" -> v.s = <<>>
      [] v.t = "number" -> v.n = 0
      [] v.t = "boolean" -> ~v.b
      [] OTHER -> FALSE

\* jsonResponse(data, statusCode) of the handler: JSON.stringify(data)
handlerJson(data, statusCode) ==
    [statusCode |-> statusCode, headers |-> JsonHeaders, body |-> [t |-> "json", data |-> data]]

Handled(map, res) == [todos |-> map, result |-> res]

\* the catch block: 500 with the error's message
Caught(map, message) ==
    Handled(map, handlerJson([error |-> "Internal Server Error", message |-> message], 500))

\* event.body ? JSON.parse(event.body) : {}
EventBody(e) ==
    IF e.body.t = "absent" THEN Succeed(JObj(NoInput))
    ELSE IF e.body.syntax = "invalid" THEN Fail("SyntaxError")
    ELSE Succeed(e.body.value)

\* the title test of POST and PATCH: not a string, or empty once trimmed
NotATitle(v) == IF v.t # "string" THEN TRUE ELSE Len(Trim(v.s)) = 0

\* POST /todos
HandlePost(map, e, id, now) ==
    LET body == EventBody(e)
    IN  IF body.tag = "failure" THEN Caught(map, body.error)
        ELSE IF body.value.t # "object" THEN Caught(map, "TypeError")
        ELSE LET title == Prop(body.value, "title")
             IN  IF Falsy(title) \/ NotATitle(title)
                 THEN Handled(map, handlerJson(
                          [error |-> "Title is required and must be a non-empty string"], 400))
                 ELSE LET todo == [id |-> id,
                                   title |-> Trim(title.s),
                                   completed |-> Prop(body.value, "completed") = JBool(TRUE),
                                   createdAt |-> toISOString(now)]
                      IN  Handled(MapSet(map, id, todo), handlerJson(todo, 201))

NotFoundBody(id) == [error |-> "Todo with id " \o id \o " not found"]

\* PATCH /todos/:id: the stored object is assigned to field by field
HandlePatch(map, e, id) ==
    LET todo == MapGet(map, id)
        body == EventBody(e)
    IN  IF todo = Undefined THEN Handled(map, handlerJson(NotFoundBody(id), 404))
        ELSE IF body.tag = "failure" THEN Caught(map, body.error)
        ELSE IF body.value.t # "object" THEN Caught(map, "TypeError")
        ELSE LET title == Prop(body.value, "title")
                 completed == Prop(body.value, "completed")
                 titled == IF title # Undefined
                           THEN [todo EXCEPT !.title = Trim(title.s)] ELSE todo
             IN  IF title # Undefined /\ NotATitle(title)
                 THEN Handled(map, handlerJson([error |-> "Title must be a non-empty string"], 400))
                 ELSE IF completed # Undefined /\ completed.t # "boolean"
                 THEN Handled(MapSet(map, id, titled),
                              handlerJson([error |-> "Completed must be a boolean"], 400))
                 ELSE LET updated == IF completed # Undefined
                                     THEN [titled EXCEPT !.completed = completed.b] ELSE titled
                      IN  Handled(MapSet(map, id, updated), handlerJson(updated, 200))

AvailableRoutes ==
    <<"GET /health", "GET /todos", "POST /todos", "GET /todos/:id", "PATCH /todos/:id",
      "DELETE /todos/:id">>

\* handler: the first branch whose path and method match
handler(map, e, id, now) ==
    CASE e.path = <<"health">> /\ e.method = "GET" ->
            Handled(map, handlerJson([status |-> "ok", timestamp |-> toISOString(now),
                                      service |-> "todo-api", todoCount |-> MapSize(map)], 200))
      [] e.path = <<"todos">> /\ e.method = "GET" ->
            Handled(map, handlerJson(MapValues(map), 200))
      [] e.path = <<"todos">> /\ e.method = "POST" -> HandlePost(map, e, id, now)
      [] IsTodoPath(e.path) /\ e.method = "GET" ->
            IF MapGet(map, e.path[2]) = Undefined
            THEN Handled(map, handlerJson(NotFoundBody(e.path[2]), 404))
            ELSE Handled(map, handlerJson(MapGet(map, e.path[2]), 200))
      [] IsTodoPath(e.path) /\ e.method = "PATCH" -> HandlePatch(map, e, e.path[2])
      [] IsTodoPath(e.path) /\ e.method = "DELETE" ->
            IF MapGet(map, e.path[2]) = Undefined
            THEN Handled(map, handlerJson(NotFoundBody(e.path[2]), 404))
            ELSE Handled(MapDelete(map, e.path[2]), handlerJson(JNull, 204))
      [] e.method = "OPTIONS" ->
            Handled(map, [statusCode |-> 204, headers |-> NoHeaders, body |-> [t |-> "empty"]])
      [] OTHER ->
            Handled(map, handlerJson([error |-> "Not Found", availableRoutes |-> AvailableRoutes],
                                     404))

\* history: the ids deleted and not stored again since
DeletedAfter(e, res, id) ==
    IF e.method = "DELETE" /\ res.statusCode = 204 THEN deleted \cup {e.path[2]}
    ELSE IF e.method = "POST" /\ res.statusCode = 201 THEN deleted \ {id}
    ELSE deleted

\* One invocation of the handler in the running process.
Invoke(e) ==
    /\ event = NoRequest
    /\ \E now \in Times, id \in GeneratedIds :
          LET out == handler(todos, e, id, now)
          IN  /\ todos' = out.todos
              /\ handled' = out.result
              /\ deleted' = DeletedAfter(e, out.result, id)
    /\ event' = e
    /\ base' = [map |-> todos]
    /\ UNCHANGED <<todosRef, idCounter, fiber, issued, live, routerVars, dynamoVars, schemaVars>>

\* The result has been returned; the process waits for the next event.
Return ==
    /\ event # NoRequest
    /\ event' = NoRequest
    /\ handled' = NoResponse
    /\ base' = NoBase
    /\ UNCHANGED <<todos, todosRef, idCounter, fiber, issued, live, deleted, routerVars,
                   dynamoVars, schemaVars>>

HandlerNext ==
    \/ \E e \in Events : Invoke(e)
    \/ Return

HandlerSpec == Init /\ [][HandlerNext]_vars

-----------------------------------------------------------------------------
(* The DynamoDB Lambda handler *)

DynamoTitles == {<<>>, <<" ">>, <<"a", " ">>}

DynamoEvents == RequestsOf(HandlerIds, BodiesOf(DynamoTitles))

\* a command sent, and whether dynamodb.send resolved or threw
SentOk(command) == [command |-> command, ok |-> TRUE]

SentFailed(command) == [command |-> command, ok |-> FALSE]

\* PutCommand: the item replaces whatever the key held
PutItem(items, item) ==
    [k \in DOMAIN items \cup {item.id} |-> IF k = item.id THEN item ELSE items[k]]

\* GetCommand: result.Item, undefined for a key the table does not hold
GetItem(items, id) == IF id \in DOMAIN items THEN items[id] ELSE Undefined

\* DeleteCommand
DeleteItem(items, id) == [k \in DOMAIN items \ {id} |-> items[k]]

\* UpdateCommand with SET and ReturnValues ALL_NEW, no ConditionExpression:
\* the attributes are set on the item of that key, which DynamoDB creates when
\* the table does not hold it; the result's Attributes are the item afterwards
UpdateItem(items, id, sets) ==
    Spread(IF id \in DOMAIN items THEN items[id] ELSE [id |-> id], sets)

\* ScanCommand: result.Items, in no order the handler chooses
ScanItems(items) == {items[k] : k \in DOMAIN items}

\* what one invocation leaves: the table, the result, the commands sent
Replied(items, res, commands) == [table |-> items, result |-> res, sent |-> commands]

\* the catch block: 500 with the error's message and the request id
DynamoCaught(items, message, commands) ==
    Replied(items,
            handlerJson([error |-> "Internal Server Error", message |-> message,
                         requestId |-> "awsRequestId"], 500),
            commands)

\* Variant: a command that threw is sent once more, and then resolves.
SendingRetried(items, command, failAt, outcome) ==
    IF failAt = 1
    THEN [outcome EXCEPT !.sent = <<SentFailed(command)>> \o outcome.sent]
    ELSE outcome

\* the one command of a route sent: thrown, or its outcome
Sending(items, command, failAt, outcome) ==
    IF failAt = 1 THEN DynamoCaught(items, "DynamoDBServiceException", <<SentFailed(command)>>)
    ELSE outcome

\* POST /todos
DynamoPost(items, e, id, now, failAt) ==
    LET body == EventBody(e)
    IN  IF body.tag = "failure" THEN DynamoCaught(items, body.error, <<>>)
        ELSE IF body.value.t # "object" THEN DynamoCaught(items, "TypeError", <<>>)
        ELSE LET title == Prop(body.value, "title")
             IN  IF Falsy(title) \/ NotATitle(title)
                 THEN Replied(items, handlerJson(
                          [error |-> "Title is required and must be a non-empty string"], 400),
                          <<>>)
                 ELSE LET todo == [id |-> id,
                                   title |-> Trim(title.s),
                                   completed |-> Prop(body.value, "completed") = JBool(TRUE),
                                   createdAt |-> toISOString(now)]
                      IN  Sending(items, "Put", failAt,
                                  Replied(PutItem(items, todo), handlerJson(todo, 201),
                                          <<SentOk("Put")>>))

\* the SET clauses of the update expression, by attribute
UpdateExpressions(body) ==
    [f \in {g \in {"title", "completed"} : Prop(body, g) # Undefined} |->
        IF f = "title" THEN Trim(body.o.title.s) ELSE body.o.completed.b]

\* PATCH /todos/:id
DynamoPatch(items, e, id, failAt) ==
    LET body == EventBody(e)
    IN  IF body.tag = "failure" THEN DynamoCaught(items, body.error, <<>>)
        ELSE IF body.value.t # "object" THEN DynamoCaught(items, "TypeError", <<>>)
        ELSE LET title == Prop(body.value, "title")
                 completed == Prop(body.value, "completed")
             IN  IF title # Undefined /\ NotATitle(title)
                 THEN Replied(items, handlerJson([error |-> "Title must be a non-empty string"],
                                                 400), <<>>)
                 ELSE IF completed # Undefined /\ completed.t # "boolean"
                 THEN Replied(items, handlerJson([error |-> "Completed must be a boolean"], 400),
                              <<>>)
                 ELSE IF DOMAIN UpdateExpressions(body.value) = {}
                 THEN Replied(items, handlerJson([error |-> "No valid fields to update"], 400),
                              <<>>)
                 ELSE LET attributes == UpdateItem(items, id, UpdateExpressions(body.value))
                      IN  Sending(items, "Update", failAt,
                              IF attributes = Undefined
                              THEN Replied(items, handlerJson(NotFoundBody(id), 404),
                                           <<SentOk("Update")>>)
                              ELSE Replied(PutItem(items, attributes),
                                           handlerJson(attributes, 200), <<SentOk("Update")>>))

\* DELETE /todos/:id: GetCommand, then DeleteCommand
DynamoDelete(items, id, failAt) ==
    Sending(items, "Get", failAt,
        IF GetItem(items, id) = Undefined
        THEN Replied(items, handlerJson(NotFoundBody(id), 404), <<SentOk("Get")>>)
        ELSE IF failAt = 2
        THEN DynamoCaught(items, "DynamoDBServiceException",
                          <<SentOk("Get"), SentFailed("Delete")>>)
        ELSE Replied(DeleteItem(items, id), handlerJson(JNull, 204),
                     <<SentOk("Get"), SentOk("Delete")>>))

\* handler: the first branch whose path and method match; failAt numbers the
\* send of this invocation that throws, 0 for none
dynamoHandler(items, e, id, now, failAt) ==
    CASE e.path = <<"health">> /\ e.method = "GET" ->
            Sending(items, "Scan", failAt,
                Replied(items,
                        handlerJson([status |-> "ok", timestamp |-> toISOString(now),
                                     service |-> "todo-api",
                                     todoCount |-> Cardinality(DOMAIN items)], 200),
                        <<SentOk("Scan")>>))
      [] e.path = <<"todos">> /\ e.method = "GET" ->
            Sending(items, "Scan", failAt,
                Replied(items, handlerJson(ScanItems(items), 200), <<SentOk("Scan")>>))
      [] e.path = <<"todos">> /\ e.method = "POST" -> DynamoPost(items, e, id, now, failAt)
      [] IsTodoPath(e.path) /\ e.method = "GET" ->
            Sending(items, "Get", failAt,
                IF GetItem(items, e.path[2]) = Undefined
                THEN Replied(items, handlerJson(NotFoundBody(e.path[2]), 404), <<SentOk("Get")>>)
                ELSE Replied(items, handlerJson(GetItem(items, e.path[2]), 200),
                             <<SentOk("Get")>>))
      [] IsTodoPath(e.path) /\ e.method = "PATCH" -> DynamoPatch(items, e, e.path[2], failAt)
      [] IsTodoPath(e.path) /\ e.method = "DELETE" -> DynamoDelete(items, e.path[2], failAt)
      [] e.method = "OPTIONS" ->
            Replied(items, [statusCode |-> 204, headers |-> NoHeaders, body |-> [t |-> "empty"]],
                    <<>>)
      [] OTHER ->
            Replied(items,
                    handlerJson([error |-> "Not Found", message |-> "Route not found",
                                 availableRoutes |-> AvailableRoutes], 404),
                    <<>>)

\* the sends an invocation can reach, numbered; DELETE sends two commands
MaxSends == 2

\* One invocation of the DynamoDB handler; any one of its sends may throw.
DynamoInvoke(e) ==
    /\ event = NoRequest
    /\ \E now \in Times, id \in GeneratedIds, failAt \in 0..MaxSends :
          LET out == dynamoHandler(table, e, id, now, failAt)
          IN  /\ table' = out.table
              /\ replied' = out.result
              /\ sent' = out.sent
    /\ event' = e
    /\ base' = [items |-> table]
    /\ UNCHANGED <<todosRef, idCounter, fiber, issued, live, deleted, routerVars, todos, handled,
                   schemaVars>>

\* The result has been returned; the function waits for the next event.
DynamoReturn ==
    /\ event # NoRequest
    /\ event' = NoRequest
    /\ replied' = NoResponse
    /\ sent' = <<>>
    /\ base' = NoBase
    /\ UNCHANGED <<todosRef, idCounter, fiber, issued, live, deleted, routerVars, todos, handled,
                   table, schemaVars>>

DynamoNext ==
    \/ \E e \in DynamoEvents : DynamoInvoke(e)
    \/ DynamoReturn

DynamoSpec == Init /\ [][DynamoNext]_vars

-----------------------------------------------------------------------------
(* The two Lambda handlers given the same events *)

\* One event handled by the in-memory handler and by the DynamoDB handler,
\* both given the same generated id and the same time, no DynamoDB call failing.
PairInvoke(e) ==
    /\ event = NoRequest
    /\ \E now \in Times, id \in GeneratedIds :
          LET out == handler(todos, e, id, now)
              dynamo == dynamoHandler(table, e, id, now, 0)
          IN  /\ todos' = out.todos
              /\ handled' = out.result
              /\ table' = dynamo.table
              /\ replied' = dynamo.result
              /\ sent' = dynamo.sent
    /\ event' = e
    /\ base' = [map |-> todos, items |-> table]
    /\ UNCHANGED <<todosRef, idCounter, fiber, issued, live, deleted, routerVars, schemaVars>>

\* Both results have been returned.
PairReturn ==
    /\ event # NoRequest
    /\ event' = NoRequest
    /\ handled' = NoResponse
    /\ replied' = NoResponse
    /\ sent' = <<>>
    /\ base' = NoBase
    /\ UNCHANGED <<todos, table, todosRef, idCounter, fiber, issued, live, deleted, routerVars,
                   schemaVars>>

PairNext ==
    \/ \E e \in DynamoEvents : PairInvoke(e)
    \/ PairReturn

PairSpec == Init /\ [][PairNext]_vars

-----------------------------------------------------------------------------
(* The DynamoDB handler invoked concurrently: each await of dynamodb.send is  *)
(* a point where the other invocation's commands reach the table             *)

\* POST /todos {"title": "a"}: the PutCommand sent, 201
ConcurrentPost(p) ==
    /\ fiber[p].pc = "idle"
    /\ \E now \in Times, id \in GeneratedIds :
          LET todo == [id |-> id, title |-> <<"a">>, completed |-> FALSE,
                       createdAt |-> toISOString(now)]
          IN  /\ table' = PutItem(table, todo)
              /\ Done(p, "POST", id, NoInput, todo, handlerJson(todo, 201))
    /\ UNCHANGED <<todosRef, idCounter, base, issued, live, deleted, routerVars, handlerVars,
                   replied, sent, schemaVars>>

\* DELETE /todos/:id: the GetCommand sent; 404 when it finds no item
ConcurrentDeleteGet(p, id) ==
    /\ fiber[p].pc = "idle"
    /\ IF GetItem(table, id) = Undefined
       THEN Done(p, "DELETE", id, NoInput, Undefined, handlerJson(NotFoundBody(id), 404))
       ELSE Pending(p, "DELETE", id, NoInput, GetItem(table, id))
    /\ UNCHANGED <<todosRef, idCounter, base, issued, live, deleted, routerVars, handlerVars,
                   dynamoVars, schemaVars>>

\* DELETE /todos/:id: the DeleteCommand sent, which resolves whether or not
\* the table still holds the item; 204
ConcurrentDeleteSend(p) ==
    /\ fiber[p].pc = "write" /\ fiber[p].op = "DELETE"
    /\ table' = DeleteItem(table, fiber[p].id)
    /\ Done(p, "DELETE", fiber[p].id, NoInput, fiber[p].todo, handlerJson(JNull, 204))
    /\ UNCHANGED <<todosRef, idCounter, base, issued, live, deleted, routerVars, handlerVars,
                   replied, sent, schemaVars>>

\* Two invocations at a time on one table; Join once both have returned.
ConcurrentNext ==
    \/ \E p \in Fibers : ConcurrentPost(p)
    \/ \E p \in Fibers, id \in HandlerIds : ConcurrentDeleteGet(p, id)
    \/ \E p \in Fibers : ConcurrentDeleteSend(p)
    \/ Join

ConcurrentSpec == Init /\ [][ConcurrentNext]_vars

-----------------------------------------------------------------------------
(* The repository contract, operations called one after another (SeqSpec) *)

TodoFields == {"id", "title", "completed", "createdAt"}

Finished(p, op) == fiber[p].pc = "done" /\ fiber[p].op = op

Succeeded(p, op) == Finished(p, op) /\ fiber[p].result.tag = "success"

\* C1: Round-trip. Right after create(input) has returned an entity,
\* getById(returned.id) succeeds with an entity equal to it in every field,
\* and the entity carries the title of the input.
C1_RoundTrip ==
    \A p \in Fibers :
        Succeeded(p, "create") =>
            LET created == fiber[p].result.value
                retrieved == getById(todosRef, created.id)
            IN  /\ retrieved.tag = "success"
                /\ \A f \in TodoFields : retrieved.value[f] = created[f]
                /\ DOMAIN retrieved.value = TodoFields
                /\ created.title = fiber[p].input.title

C1_Witness ==
    \E p \in Fibers :
        /\ Succeeded(p, "create")
        /\ fiber[p].input = [title |-> <<"b", "c">>, completed |-> TRUE]
        /\ getById(todosRef, fiber[p].result.value.id) = Succeed(fiber[p].result.value)
        /\ MapSize(todosRef) = 2

\* C2: Partial update. A successful update(id, updates) overwrites exactly the
\* fields present in updates: in the returned and in the stored entity every
\* other field (id, createdAt, and title when only completed is given) is as
\* it was before the call, and every other entry of the store is unchanged.
C2_PartialUpdate ==
    \A p \in Fibers :
        Succeeded(p, "update") =>
            LET id == fiber[p].id
                updates == fiber[p].input
                before == MapGet(base.map, id)
                stored == MapGet(todosRef, id)
                returned == fiber[p].result.value
            IN  /\ before # Undefined /\ stored # Undefined
                /\ DOMAIN stored = TodoFields /\ DOMAIN returned = TodoFields
                /\ \A f \in TodoFields \ DOMAIN updates :
                       stored[f] = before[f] /\ returned[f] = before[f]
                /\ \A f \in DOMAIN updates :
                       stored[f] = updates[f] /\ returned[f] = updates[f]
                /\ MapKeys(todosRef) = MapKeys(base.map)
                /\ \A k \in MapKeys(base.map) \ {id} :
                       MapGet(todosRef, k) = MapGet(base.map, k)

C2_Witness ==
    \E p \in Fibers :
        /\ Succeeded(p, "update")
        /\ fiber[p].input = [completed |-> TRUE]
        /\ MapGet(base.map, fiber[p].id).completed = FALSE
        /\ MapGet(todosRef, fiber[p].id).completed = TRUE
        /\ MapGet(todosRef, fiber[p].id).title = <<"b", "c">>
        /\ MapSize(todosRef) = 2

\* C3: Not-found totality. getById, update and delete called with an id that
\* is not in the store fail with TodoNotFoundError carrying that id, do not
\* go on to write, and leave the store as it was.
C3_NotFoundTotality ==
    \A p \in Fibers :
        /\ (fiber[p].pc = "done" /\ fiber[p].op \in {"getById", "update", "delete"}
              /\ ~MapHas(base.map, fiber[p].id))
           => /\ fiber[p].result = Fail(TodoNotFoundError(fiber[p].id))
              /\ todosRef = base.map
        /\ (fiber[p].pc = "write" /\ fiber[p].op \in {"update", "delete"})
           => MapHas(base.map, fiber[p].id)

C3_Witness ==
    \E p \in Fibers :
        /\ Finished(p, "delete")
        /\ fiber[p].id = TodoId(1)
        /\ fiber[p].id \in deleted
        /\ fiber[p].result = Fail(TodoNotFoundError(TodoId(1)))
        /\ MapSize(todosRef) = 1

\* C4: Delete is not idempotent. From the moment delete(id) has succeeded
\* until an entity with that id is created again, getById(id) fails with
\* TodoNotFoundError and so does another delete(id).
C4_DeleteNotIdempotent ==
    \A id \in deleted :
        /\ getById(todosRef, id) = Fail(TodoNotFoundError(id))
        /\ DeleteCheck(todosRef, id) = Fail(TodoNotFoundError(id))
        /\ \A p \in Fibers :
               (fiber[p].pc = "done" /\ fiber[p].id = id /\ fiber[p].op \in {"getById", "delete"}
                  /\ id \notin MapKeys(base.map))
               => fiber[p].result = Fail(TodoNotFoundError(id))

C4_Witness ==
    \E p \in Fibers :
        /\ Finished(p, "delete")
        /\ fiber[p].id \in deleted
        /\ ~MapHas(base.map, fiber[p].id)
        /\ fiber[p].result.tag = "failure"
        /\ idCounter = MaxCreates + 1

\* C5: getAll returns the full and current set. Its result holds exactly one
\* entity per id created and not since deleted, each with its latest merged
\* values, and after n creates and no delete it has n elements.
C5_GetAllCurrent ==
    LET all == getAll(todosRef).value
    IN  /\ Len(all) = Cardinality(DOMAIN live)
        /\ \A id \in DOMAIN live :
               /\ Cardinality({i \in DOMAIN all : all[i].id = id}) = 1
               /\ \E i \in DOMAIN all : all[i] = live[id]
        /\ \A i \in DOMAIN all : all[i].id \in DOMAIN live
        /\ (deleted = {} /\ \A p \in Fibers : fiber[p].pc # "write")
              => Len(all) = Len(issued)
        /\ \A p \in Fibers : Finished(p, "getAll") => fiber[p].result = getAll(todosRef)

C5_Witness ==
    \E p \in Fibers :
        /\ Finished(p, "getAll")
        /\ Len(fiber[p].result.value) = 1
        /\ Len(issued) = 2
        /\ deleted # {}
        /\ fiber[p].result.value[1].title = <<"b", "c">>
        /\ fiber[p].result.value[1].completed

-----------------------------------------------------------------------------
(* The repository under concurrent operations (Spec) *)

NoDuplicates(seq) == \A i, j \in DOMAIN seq : i # j => seq[i] # seq[j]

\* C6: Id uniqueness. No two create calls on one instance are handed the
\* same id, also when they run concurrently and after deletes, and the id a
\* create is about to store under is not a key of the store.
C6_IdUnique ==
    /\ NoDuplicates(issued)
    /\ \A p \in Fibers :
           (fiber[p].pc = "write" /\ fiber[p].op = "create")
           => /\ ~MapHas(todosRef, fiber[p].id)
              /\ fiber[p].id = fiber[p].todo.id
    /\ \A p, q \in Fibers :
           (p # q /\ fiber[p].op = "create" /\ fiber[q].op = "create")
           => fiber[p].id # fiber[q].id

\* two creates forked together, the one handed the later id storing first
C6_Witness ==
    /\ \A p \in Fibers : Succeeded(p, "create")
    /\ base.map = <<>>
    /\ MapKeys(todosRef) = {TodoId(1), TodoId(2)}
    /\ todosRef[1].key = TodoId(2)

\* The Map as a mapping, the order of its entries put aside.
Content(map) == [k \in MapKeys(map) |-> MapGet(map, k)]

SameResult(a, b) ==
    /\ a.tag = b.tag
    /\ IF a.tag = "failure" THEN a.error = b.error ELSE a.value = b.value

RECURSIVE AgreesWith(_, _)
\* The finished operations, run alone in this order from state, give the
\* results the fibers hold and end in the store as it is.
AgreesWith(state, order) ==
    IF order = <<>>
    THEN Content(state.map) = Content(todosRef)
    ELSE LET f == fiber[Head(order)]
             run == Alone(state, f)
         IN  /\ f.op = "getAll" => Len(run.result.value) = Len(f.result.value)
             /\ f.op = "getAll" =>
                    {run.result.value[i] : i \in DOMAIN run.result.value}
                        = {f.result.value[i] : i \in DOMAIN f.result.value}
             /\ f.op # "getAll" => SameResult(run.result, f.result)
             /\ AgreesWith(run.state, Tail(order))

Orders(S) == {o \in [1..Cardinality(S) -> S] : \A i, j \in DOMAIN o : i # j => o[i] # o[j]}

\* C7: Atomic operations. Whenever the operations forked together have all
\* finished, their results and the store are those of running them one
\* after another, in some order, from the store they were forked on.
C7_Atomic ==
    LET finished == {p \in Fibers : fiber[p].pc = "done"}
    IN  (finished # {} /\ \A p \in Fibers : fiber[p].pc \in {"idle", "done"})
        => \E order \in Orders(finished) : AgreesWith(base, order)

\* C8: No lost updates. When an update of the title alone and an update of
\* completed alone, forked together on the same existing id, have both
\* succeeded, the stored entity carries the new title and the new completed.
C8_NoLostUpdate ==
    \A p, q \in Fibers :
        (/\ Succeeded(p, "update") /\ Succeeded(q, "update")
         /\ fiber[p].id = fiber[q].id
         /\ DOMAIN fiber[p].input = {"title"}
         /\ DOMAIN fiber[q].input = {"completed"})
        => LET stored == MapGet(todosRef, fiber[p].id)
           IN  /\ stored # Undefined
               /\ stored.title = fiber[p].input.title
               /\ stored.completed = fiber[q].input.completed

-----------------------------------------------------------------------------
(* The router over one repository instance (RouterSpec) *)

\* a body whose JSON is an object with a string title that is empty or too long
HasBadTitle(body) ==
    /\ body.t = "text" /\ body.syntax = "json" /\ body.value.t = "object"
    /\ "title" \in DOMAIN body.value.o
    /\ body.value.o.title.t = "string"
    /\ (Len(body.value.o.title.s) = 0 \/ Len(body.value.o.title.s) > MaxTitleLength)

\* C9: Validation totality. POST /todos with an empty title or one longer
\* than 200 characters is answered 400 with the ValidationError body
\* {error: "Invalid request body", details: issues}; repository.create is
\* not invoked and the store and the counter are as before the request.
C9_ValidationTotality ==
    (request # NoRequest /\ request.method = "POST" /\ request.path = <<"todos">>
       /\ HasBadTitle(request.body))
    => /\ response.tag = "success"
       /\ response.value.status = 400
       /\ response.value.body.t = "json"
       /\ response.value.body.data.error = "Invalid request body"
       /\ response.value.body.data.details = ParseError("title")
       /\ invoked = <<>>
       /\ todosRef = base.map
       /\ idCounter = base.counter

C9_Witness ==
    /\ request # NoRequest /\ request.method = "POST" /\ request.path = <<"todos">>
    /\ HasBadTitle(request.body)
    /\ Len(request.body.value.o.title.s) = MaxTitleLength + 1
    /\ response.value.status = 400
    /\ MapSize(todosRef) = 1
    /\ Len(todosRef[1].value.title) = MaxTitleLength

-----------------------------------------------------------------------------
(* The plain handler's store against the Todo schema (HandlerSpec) *)

\* S.decode(Todo) accepts the entity: id of one character or more, title of
\* 1 to 200 characters, boolean completed, createdAt a string
SatisfiesTodo(todo) ==
    /\ DOMAIN todo = TodoFields
    /\ todo.id # ""
    /\ Len(todo.title) >= 1 /\ Len(todo.title) <= MaxTitleLength
    /\ todo.completed \in BOOLEAN
    /\ todo.createdAt \in {toISOString(t) : t \in Times}

\* C10: Schema invariant. After any sequence of requests to the plain
\* in-memory handler every entity held in the todos map satisfies the Todo
\* schema: non-empty id, title of length 1 to 200, boolean completed and a
\* createdAt string.
C10_SchemaInvariant ==
    \A i \in DOMAIN todos : SatisfiesTodo(todos[i].value)

-----------------------------------------------------------------------------
(* The routes' failures through handleErrors (RouterSpec) *)

RouteFailed == request # NoRequest /\ effect # NoResponse /\ effect.tag = "failure"

\* C11: Error mapping is deterministic and total. Every failure of a route
\* effect leaves handleErrors as one response: TodoNotFoundError{id} as 404
\* {error: "Todo with id <id> not found"}, ValidationError as 400
\* {error: message, details: issues}, any other failure as 500
\* {error: "Internal server error", details: the failure as a string}.
C11_ErrorMapping ==
    RouteFailed =>
        /\ response.tag = "success"
        /\ response.value.headers = JsonHeaders
        /\ response.value.body.t = "json"
        /\ CASE effect.error._tag = "TodoNotFoundError" ->
                   /\ response.value.status = 404
                   /\ response.value.body.data =
                          [error |-> "Todo with id " \o effect.error.id \o " not found"]
             [] effect.error._tag = "ValidationError" ->
                   /\ response.value.status = 400
                   /\ response.value.body.data =
                          [error |-> effect.error.message, details |-> effect.error.issues]
             [] OTHER ->
                   /\ response.value.status = 500
                   /\ response.value.body.data =
                          [error |-> "Internal server error", details |-> effect.error._tag]

\* a PATCH whose body is not JSON: neither tagged error, answered 500
C11_Witness ==
    /\ RouteFailed
    /\ request.method = "PATCH"
    /\ effect.error = RequestError
    /\ response.value.status = 500
    /\ MapSize(todosRef) = 1

-----------------------------------------------------------------------------
(* The Effect Lambda handler's results (LambdaSpec) *)

Resolved == event # NoRequest /\ handled.tag = "success"

\* C12: Unknown routes. A request whose method and path match no route of
\* RouterLive is answered with status 404 and a JSON body listing the
\* available routes.
C12_UnknownRoute404 ==
    (event # NoRequest /\ response = Fail(RouteNotFound))
    => /\ handled.tag = "success"
       /\ handled.value.statusCode = 404
       /\ handled.value.body.t = "json"
       /\ "availableRoutes" \in DOMAIN handled.value.body.data

\* C13: No unhandled failure. For every event the handler's promise resolves
\* with a response, never rejects, and a failure is reported as a JSON body
\* with an error property and a non-2xx status.
C13_NoUnhandledFailure ==
    event # NoRequest
    => /\ handled.tag = "success"
       /\ (response = NoResponse \/ response.tag = "failure" \/ RouteFailed)
              => /\ handled.value.statusCode >= 400
                 /\ handled.value.body.t = "json"
                 /\ "error" \in DOMAIN handled.value.body.data

\* C14: CORS on every response. Every response the handler resolves with,
\* 4xx and 5xx included, carries the three Access-Control-Allow-* headers
\* with their values.
C14_CorsEverywhere ==
    Resolved
    => \A h \in DOMAIN CorsHeaders :
           /\ h \in DOMAIN handled.value.headers
           /\ handled.value.headers[h] = CorsHeaders[h]

\* C15: Process-lifetime state. A todo created by one invocation and not
\* deleted since is returned by GET /todos/:id and is among the entities of
\* GET /todos in every later invocation of the process.
C15_ProcessLifetime ==
    /\ (Resolved /\ event.method = "GET" /\ IsTodoPath(event.path)
           /\ event.path[2] \in DOMAIN live)
       => /\ handled.value.statusCode = 200
          /\ handled.value.body.data = live[event.path[2]]
    /\ (Resolved /\ event.method = "GET" /\ event.path = <<"todos">>)
       => /\ handled.value.statusCode = 200
          /\ \A id \in DOMAIN live :
                 \E i \in DOMAIN handled.value.body.data :
                     handled.value.body.data[i] = live[id]

-----------------------------------------------------------------------------
(* The DynamoDB handler and its table (DynamoSpec) *)

\* the event is PATCH /todos/:id, its body passed validation and the
\* UpdateCommand was sent and resolved
UpdateSent ==
    /\ event # NoRequest
    /\ event.method = "PATCH" /\ IsTodoPath(event.path)
    /\ sent = <<SentOk("Update")>>

\* C16: Update of an absent id on the external store. PATCH /todos/:id with
\* a valid body for an id the table does not hold is answered 404 with the
\* not-found body, and the table holds no item for that id afterwards.
C16_UpdateAbsent ==
    (UpdateSent /\ event.path[2] \notin DOMAIN base.items)
    => /\ replied.statusCode = 404
       /\ replied.body.data = NotFoundBody(event.path[2])
       /\ event.path[2] \notin DOMAIN table

SendFailed == event # NoRequest /\ \E i \in DOMAIN sent : ~sent[i].ok

\* C19: Storage failures. A DynamoDB call that fails in any route gives one
\* response, 500 with a JSON error body; the failed command is the last one
\* of the request, and no request sends a command twice.
C19_StorageFailure ==
    /\ SendFailed
       => /\ replied.statusCode = 500
          /\ replied.headers = JsonHeaders
          /\ replied.body.t = "json"
          /\ replied.body.data.error = "Internal Server Error"
          /\ ~sent[Len(sent)].ok
          /\ table = base.items
    /\ \A i, j \in DOMAIN sent : sent[i].command = sent[j].command => i = j

\* DELETE of an item the table holds: the GetCommand resolved, the
\* DeleteCommand threw, the item is still there
C19_Witness ==
    /\ SendFailed
    /\ sent = <<SentOk("Get"), SentFailed("Delete")>>
    /\ replied.statusCode = 500
    /\ event.path[2] \in DOMAIN table

-----------------------------------------------------------------------------
(* Scenarios D and E on the plain handler (HandlerSpec) *)

\* C17: Scenario D. DELETE /todos/:id on an id the store holds is answered
\* 204 with an empty body string, the id is gone from the store, and a GET
\* /todos/:id of a deleted id is answered 404.
C17_DeleteScenario ==
    /\ (event # NoRequest /\ event.method = "DELETE" /\ IsTodoPath(event.path)
           /\ MapHas(base.map, event.path[2]))
       => /\ handled.statusCode = 204
          /\ handled.body = [t |-> "empty"]
          /\ ~MapHas(todos, event.path[2])
    /\ (event # NoRequest /\ event.method = "GET" /\ IsTodoPath(event.path)
           /\ event.path[2] \in deleted)
       => handled.statusCode = 404

\* C18: Scenario E. An OPTIONS request to any path is answered 204 with an
\* empty body and the three CORS headers, and leaves the store as it was.
C18_OptionsScenario ==
    (event # NoRequest /\ event.method = "OPTIONS")
    => /\ handled.statusCode = 204
       /\ handled.body = [t |-> "empty"]
       /\ DOMAIN CorsHeaders \subseteq DOMAIN handled.headers
       /\ todos = base.map

-----------------------------------------------------------------------------
(* The in-memory handler and the DynamoDB handler side by side (PairSpec) *)

\* the entities the in-memory handler holds
Entities(map) == {map[i].value : i \in DOMAIN map}

\* C20: The two backends share one contract. Given the same events, ids and
\* times and no failing DynamoDB call, both handlers answer each request
\* with the same status code and hold the same set of entities afterwards.
C20_SameContract ==
    /\ Entities(todos) = ScanItems(table)
    /\ event # NoRequest => handled.statusCode = replied.statusCode

-----------------------------------------------------------------------------
(* The Todo schema (SchemaSpec) *)

\* the properties of an object as plain values
Plain(o) ==
    [f \in DOMAIN o |->
        CASE o[f].t = "string" -> o[f].s
          [] o[f].t = "boolean" -> o[f].b
          [] o[f].t = "number" -> o[f].n
          [] OTHER -> o[f]]

\* a record with a non-empty string id, a title of 1 to 200 characters, a
\* boolean completed and a string createdAt
IsTodoRecord(v) ==
    /\ v.t = "object"
    /\ TodoFields \subseteq DOMAIN v.o
    /\ v.o.id.t = "string" /\ Len(v.o.id.s) >= 1
    /\ v.o.title.t = "string" /\ Len(v.o.title.s) >= 1 /\ Len(v.o.title.s) <= MaxTitleLength
    /\ v.o.completed.t = "boolean"
    /\ v.o.createdAt.t = "string"

\* C21: Entity decoding. Decoding with the Todo schema succeeds exactly for
\* records with a non-empty string id, a title of 1 to 200 characters, a
\* boolean completed and a string createdAt, and returns those four
\* properties with their values unchanged, any other property dropped; a
\* record lacking a field or with an empty title is rejected.
C21_TodoDecoding ==
    raw # Undefined
    => /\ validated.tag = "success" <=> IsTodoRecord(raw)
       /\ validated.tag = "success"
              => validated.value = [f \in TodoFields |-> Plain(raw.o)[f]]
       /\ validated.tag = "failure" => validated.error._tag = "ParseError"

\* a record with a 200-character title and a property Todo does not declare
C21_Witness ==
    /\ raw # Undefined
    /\ validated.tag = "success"
    /\ "priority" \in DOMAIN raw.o
    /\ Len(validated.value.title) = MaxTitleLength
    /\ DOMAIN validated.value = TodoFields

\* C21 as stated: Entity decoding. Decoding succeeds exactly for those
\* records and returns the record given, unchanged.
C21_ReturnsRecordUnchanged ==
    raw # Undefined
    => /\ validated.tag = "success" <=> IsTodoRecord(raw)
       /\ validated.tag = "success" => validated.value = Plain(raw.o)

-----------------------------------------------------------------------------
(* Creation through the router (RouterSpec) *)

\* POST /todos with a JSON object whose title is a string within the bounds
\* and whose completed is absent or a boolean
ValidCreate ==
    /\ request # NoRequest
    /\ request.method = "POST" /\ request.path = <<"todos">>
    /\ request.body.t = "text" /\ request.body.syntax = "json"
    /\ request.body.value.t = "object"
    /\ "title" \in DOMAIN request.body.value.o
    /\ request.body.value.o.title.t = "string"
    /\ Len(request.body.value.o.title.s) \in 1..MaxTitleLength
    /\ "completed" \in DOMAIN request.body.value.o
           => request.body.value.o.completed.t = "boolean"

\* C22: Default of completed. A valid create input without completed
\* decodes to completed = false, and the entity created and stored from it
\* has completed = false, the generated id and a createdAt; a boolean
\* completed given in the input is kept.
C22_CompletedDefault ==
    ValidCreate
    => LET given == request.body.value.o
           input == DecodeCreateTodoInput(request.body.value)
           todo == response.value.body.data
           completed == IF "completed" \in DOMAIN given THEN given.completed.b ELSE FALSE
       IN  /\ input.tag = "success"
           /\ input.value.completed = completed
           /\ response.value.status = 201
           /\ todo.completed = completed
           /\ todo.title = given.title.s
           /\ todo.id = TodoId(base.counter)
           /\ todo.createdAt \in {toISOString(t) : t \in Times}
           /\ MapGet(todosRef, todo.id) = todo
           /\ invoked = <<"create">>

\* a second todo created from {"title": ...} alone
C22_Witness ==
    /\ ValidCreate
    /\ "completed" \notin DOMAIN request.body.value.o
    /\ response.value.status = 201
    /\ response.value.body.data.completed = FALSE
    /\ response.value.body.data.id = TodoId(2)
    /\ MapSize(todosRef) = 2

-----------------------------------------------------------------------------
(* The health check of the DynamoDB handler (DynamoSpec) *)

\* C23: Health check. GET /health is answered 200 with status "ok" and a
\* timestamp in every state of the store, whether or not a storage call
\* succeeds; it leaves the store as it was, and the todoCount it reports is
\* the number of entities stored.
C23_HealthCheck ==
    (event # NoRequest /\ event.method = "GET" /\ event.path = <<"health">>)
    => /\ replied.statusCode = 200
       /\ replied.body.data.status = "ok"
       /\ replied.body.data.timestamp \in {toISOString(t) : t \in Times}
       /\ replied.body.data.todoCount = Cardinality(DOMAIN table)
       /\ table = base.items

-----------------------------------------------------------------------------
(* Validation in the plain handler (HandlerSpec) *)

Patched == event # NoRequest /\ event.method = "PATCH" /\ IsTodoPath(event.path)

Posted == event # NoRequest /\ event.method = "POST" /\ event.path = <<"todos">>

\* the event's body is a JSON object
ObjectBody == event.body.t = "text" /\ event.body.syntax = "json" /\ event.body.value.t = "object"

\* C24: A rejected PATCH changes nothing. A PATCH /todos/:id answered 400
\* leaves the store, and so the entity addressed, exactly as before the
\* request, whatever the body.
C24_RejectedPatchNoChange ==
    (Patched /\ handled.statusCode = 400) => todos = base.map

\* C25: Validate before delegating. A PATCH whose body is invalid (an empty
\* title) addressed to an id the store does not hold is answered 400, not
\* 404: the body is validated before the store is consulted.
C25_ValidateFirst ==
    (Patched /\ ~MapHas(base.map, event.path[2]) /\ ObjectBody
        /\ Prop(event.body.value, "title") = JStr(<<>>))
    => handled.statusCode = 400

\* C26: Type conformance on create. POST /todos with a valid title and a
\* completed value that is not a boolean is rejected with 400 and stores
\* nothing.
C26_CreateTypeConformance ==
    (Posted /\ ObjectBody
        /\ Prop(event.body.value, "title").t = "string"
        /\ Len(Trim(Prop(event.body.value, "title").s)) \in 1..MaxTitleLength
        /\ Prop(event.body.value, "completed") # Undefined
        /\ Prop(event.body.value, "completed").t # "boolean")
    => /\ handled.statusCode = 400
       /\ todos = base.map

\* C30: Create never replaces. The id generated for a new todo is not a key
\* of the todos map, so a POST /todos answered 201 adds exactly one entry
\* and leaves every entry stored before as it was.
C30_CreateNeverReplaces ==
    (Posted /\ handled.statusCode = 201)
    => /\ ~MapHas(base.map, handled.body.data.id)
       /\ MapSize(todos) = MapSize(base.map) + 1
       /\ \A i \in DOMAIN base.map : todos[i] = base.map[i]

-----------------------------------------------------------------------------
(* Keys and identity in the repository (Spec) *)

\* every entry's key is the id of the entity stored under it
KeyIsId(map) ==
    \A i \in DOMAIN map :
        /\ DOMAIN map[i].value = TodoFields
        /\ map[i].key = map[i].value.id

\* what is stored under a key after a step has the id and createdAt of what
\* was stored under it before
IdentityKept ==
    \A i \in DOMAIN todosRef' :
        MapHas(todosRef, todosRef'[i].key)
        => /\ DOMAIN todosRef'[i].value = TodoFields
           /\ todosRef'[i].value.id = MapGet(todosRef, todosRef'[i].key).id
           /\ todosRef'[i].value.createdAt = MapGet(todosRef, todosRef'[i].key).createdAt

\* an entity enters the store with the id create handed out for it
EntersAsCreated ==
    \A i \in DOMAIN todosRef' :
        ~MapHas(todosRef, todosRef'[i].key)
        => \E k \in DOMAIN issued' : issued'[k] = todosRef'[i].key

\* C27: Key and identity invariant. Through every step of create, update
\* and delete on one repository instance the key of every entry is the id
\* of its entity, and the id and createdAt of a stored entity stay the ones
\* it was created with; no update changes them.
C27_KeyAndIdentity ==
    [][KeyIsId(todosRef') /\ IdentityKept /\ EntersAsCreated]_vars

\* an update of the title has been written over the created entity
C27_Witness ==
    /\ \E p \in Fibers :
          /\ Succeeded(p, "update")
          /\ fiber[p].id = TodoId(1)
          /\ "title" \in DOMAIN fiber[p].input
          /\ MapHas(todosRef, TodoId(1))
          /\ MapGet(todosRef, TodoId(1)).title = fiber[p].input.title
    /\ MapGet(todosRef, TodoId(1)).id = TodoId(1)
    /\ MapGet(todosRef, TodoId(1)).title # <<"a">>

\* C28: No re-insertion of a deleted entity. When delete(id) and
\* update(id, u) have run concurrently and both reported success, the id is
\* absent from the store.
C28_NoReinsertion ==
    \A p, q \in Fibers :
        (Succeeded(p, "delete") /\ Succeeded(q, "update") /\ fiber[p].id = fiber[q].id)
        => ~MapHas(todosRef, fiber[p].id)

-----------------------------------------------------------------------------
(* Concurrent deletes on the table (ConcurrentSpec) *)

\* C29: Concurrent deletes. Of two DELETE /todos/:id for the same id
\* handled concurrently at most one is answered 204; the existence check
\* and the delete of one are not separated by the delete of the other.
C29_ConcurrentDeletes ==
    \A p, q \in Fibers :
        (p # q /\ Finished(p, "DELETE") /\ Finished(q, "DELETE") /\ fiber[p].id = fiber[q].id)
        => ~(fiber[p].result.statusCode = 204 /\ fiber[q].result.statusCode = 204)

====
